---- MODULE Spec2Model ----
(***************************************************************************)
(* godzillops/google.py: the GoogleAdmin session, the availability check   *)
(* and the create_user generator, run by concurrent callers against one    *)
(* remote directory and one remote mail service.                           *)
(***************************************************************************)
EXTENDS Naturals, Sequences, FiniteSets, TLC

MaxGroups == 2

Runs == {"r1", "r2"}
Usernames == {"ada"}
GroupNames == {"eng", "all-staff"}
Passwords == {"pw1", "pw2"}
SubAccount == "admin@corp.example"

\* What domains().list() can answer: the 'domains' array of the response.
DomainLists ==
  { << [domainName |-> "alias.example", isPrimary |-> FALSE],
       [domainName |-> "corp.example", isPrimary |-> TRUE] >>,
    << [domainName |-> "alias.example", isPrimary |-> FALSE] >> }

RECURSIVE SeqsUpTo(_, _)
SeqsUpTo(S, n) ==
  IF n = 0 THEN { <<>> }
  ELSE LET shorter == SeqsUpTo(S, n - 1)
       IN  shorter \cup { Append(s, x) : s \in shorter, x \in S }

\* The arguments of create_user.
Requests ==
  { [given_name |-> "Ada", family_name |-> "Lovelace", username |-> u,
     personal_email |-> <<u, "example.com">>, job_title |-> "Engineer",
     groups |-> g] : u \in Usernames, g \in SeqsUpTo(GroupNames, MaxGroups) }

NoRequest == [username |-> "-"]

\* '{}@{}'.format(local, domain)
FormatEmail(local, domain) == <<local, domain>>

VARIABLES
  domains,         \* remote: the customer's domain list
  accounts,        \* remote: the user resources of the directory
  members,         \* remote: the group memberships
  sent,            \* remote: the messages the mail service accepted
  session,         \* "none", "ready" (GoogleAdmin constructed), "failed"
  primary_domain,  \* self.primary_domain
  avail,           \* per caller: its last is_username_available call
  pc,              \* per caller: where its create_user generator stands
  req,             \* per caller: the arguments of its create_user call
  password,        \* per caller: the local 'password' of the generator
  idx,             \* per caller: position of the 'for group in groups' loop
  trace,           \* per caller: next() calls, remote calls, yields, in order
  listed,          \* how many domains().list() calls the session has made
  joined,          \* _generate_password: the characters chosen so far
  generated        \* _generate_password: what it returned

vars == <<domains, accounts, members, sent, session, primary_domain,
          avail, pc, req, password, idx, trace, listed, joined, generated>>

pwgen == <<joined, generated>>

\* What no operation on a constructed GoogleAdmin writes.
cached == <<session, primary_domain, listed, pwgen>>

remote == <<domains, accounts, members, sent>>

HasAccount(email) == \E a \in accounts : a.primaryEmail = email

Init ==
  /\ domains \in DomainLists
  /\ accounts = {}
  /\ members = {}
  /\ sent = <<>>
  /\ session = "none"
  /\ primary_domain = "unset"
  /\ avail = [c \in Runs |-> [username |-> "-", result |-> "-"]]
  /\ pc = [c \in Runs |-> "none"]
  /\ req = [c \in Runs |-> NoRequest]
  /\ password = [c \in Runs |-> "unset"]
  /\ idx = [c \in Runs |-> 0]
  /\ trace = [c \in Runs |-> <<>>]
  /\ listed = 0
  /\ joined = <<>>
  /\ generated = [done |-> FALSE, value |-> <<>>]

----------------------------------------------------------------------------
\* _get_primary_domain: the first domain flagged isPrimary; falling off the
\* loop returns None.
RECURSIVE FirstPrimary(_, _)
FirstPrimary(ds, k) ==
  IF k > Len(ds) THEN "None"
  ELSE IF ds[k].isPrimary THEN ds[k].domainName
  ELSE FirstPrimary(ds, k + 1)

GetPrimaryDomain(ds) == FirstPrimary(ds, 1)

\* GoogleAdmin.__init__: builds the services and resolves the primary domain
\* with one domains().list() call; when that call raises, no object exists.
NewGoogleAdmin ==
  /\ session = "none"
  /\ \E ok \in BOOLEAN :
       IF ok
       THEN /\ session' = "ready"
            /\ primary_domain' = GetPrimaryDomain(domains)
       ELSE /\ session' = "failed"
            /\ UNCHANGED primary_domain
  /\ listed' = listed + 1
  /\ UNCHANGED <<remote, pwgen, avail, pc, req, password, idx, trace>>

----------------------------------------------------------------------------
\* What users().get(userKey=email).execute() can do: answer with the user
\* ("found"), raise HttpError 404 ("notfound"), raise HttpError with another
\* status ("http_error"), or raise something that is not an HttpError
\* ("transport").
GetOutcomes(email) ==
  (IF HasAccount(email) THEN {"found"} ELSE {"notfound"})
    \cup {"http_error", "transport"}

\* The value is_username_available hands its caller for each outcome of the
\* get call: "raise" is an exception leaving the method; "None" is the
\* method falling off its end.
AvailableResult(outcome) ==
  CASE outcome = "found" -> "False"
    [] outcome = "notfound" -> "True"
    [] outcome = "http_error" -> "None"
    [] OTHER -> "raise"

\* Variant: a free username is reserved by inserting a placeholder user.
IsUsernameAvailable_Reserve(c, u) ==
  /\ session = "ready"
  /\ pc[c] = "none"
  /\ LET email == FormatEmail(u, primary_domain)
     IN  \E o \in GetOutcomes(email) :
           /\ avail' = [avail EXCEPT ![c] =
                          [username |-> u, userKey |-> email, outcome |-> o,
                           result |-> AvailableResult(o)]]
           /\ accounts' = IF o = "notfound"
                          THEN accounts \cup {[primaryEmail |-> email]}
                          ELSE accounts
  /\ UNCHANGED <<domains, members, sent, cached, pc, req, password, idx, trace>>

\* is_username_available(username), called by c before it provisions.
IsUsernameAvailable(c, u) ==
  /\ session = "ready"
  /\ pc[c] = "none"
  /\ LET email == FormatEmail(u, primary_domain)
     IN  \E o \in GetOutcomes(email) :
           avail' = [avail EXCEPT ![c] =
                       [username |-> u, userKey |-> email, outcome |-> o,
                        result |-> AvailableResult(o)]]
  /\ UNCHANGED <<remote, cached, pc, req, password, idx, trace>>

----------------------------------------------------------------------------
\* Locals of the generator of caller c.
Email(c) == FormatEmail(req[c].username, primary_domain)

\* Variant: the loop is one entry off.
GroupKey_Rotated(c, k) ==
  FormatEmail(req[c].groups[IF k < Len(req[c].groups) THEN k + 1 ELSE 1],
              primary_domain)

\* Variant: the groups are walked from the last to the first.
GroupKey_Reversed(c, k) ==
  FormatEmail(req[c].groups[Len(req[c].groups) + 1 - k], primary_domain)

GroupKey(c, k) == FormatEmail(req[c].groups[k], primary_domain)

UserBody(c) ==
  [primaryEmail |-> Email(c), password |-> password[c],
   changePasswordAtNextLogin |-> TRUE,
   emails |-> << Email(c), req[c].personal_email >>,
   title |-> req[c].job_title]

\* Variant: the message is composed with a freshly generated password.
WelcomeMessage_NewPassword(c) ==
  [raw |-> [to |-> req[c].personal_email, from |-> SubAccount,
            subject |-> <<"Welcome to", primary_domain>>,
            text |-> [given_name |-> req[c].given_name,
                      domain |-> primary_domain,
                      username |-> req[c].username,
                      password |-> CHOOSE pw \in Passwords : pw # password[c],
                      email |-> Email(c)]]]

\* _create_message(to, subject, message_text)
CreateMessage(to, subject, message_text) ==
  [raw |-> [to |-> to, from |-> SubAccount, subject |-> subject,
            text |-> message_text]]

WelcomeMessage(c) ==
  CreateMessage(req[c].personal_email, <<"Welcome to", primary_domain>>,
                [given_name |-> req[c].given_name, domain |-> primary_domain,
                 username |-> req[c].username, password |-> password[c],
                 email |-> Email(c)])

Entry(op, arg, ok) == [op |-> op, arg |-> arg, ok |-> ok]
Log(c, entries) == trace' = [trace EXCEPT ![c] = @ \o entries]

YieldCreated == Entry("yield", "User created!", TRUE)
YieldSending == Entry("yield", "Sending them a welcome email", TRUE)

\* What a suspended or finished generator has just delivered: reaching a
\* yield hands its string to the caller of next().
Yielded(p) ==
  CASE p = "yield1" -> << YieldCreated >>
    [] p = "yield2" -> << YieldSending >>
    [] OTHER -> << >>

\* The caller honours the availability check when it made one: it provisions
\* a username it did not check, or one the check reported available.
MayProvision(c, r) ==
  \/ avail[c].result = "-"
  \/ avail[c].result = "True" /\ avail[c].username = r.username

\* Variant: create_user is an ordinary function whose body starts running
\* when it is called.
CreateUser_Eager(c, r) ==
  /\ session = "ready"
  /\ pc[c] = "none"
  /\ pc' = [pc EXCEPT ![c] = "insert_user"]
  /\ req' = [req EXCEPT ![c] = r]
  /\ \E pw \in Passwords : password' = [password EXCEPT ![c] = pw]
  /\ UNCHANGED <<remote, cached, avail, idx, trace>>

\* Variant: create_user looks the primary domain up again.
CreateUser_Relist(c, r) ==
  /\ session = "ready"
  /\ pc[c] = "none"
  /\ MayProvision(c, r)
  /\ pc' = [pc EXCEPT ![c] = "start"]
  /\ req' = [req EXCEPT ![c] = r]
  /\ listed' = listed + 1
  /\ primary_domain' = GetPrimaryDomain(domains)
  /\ UNCHANGED <<remote, session, pwgen, avail, password, idx, trace>>

\* create_user(...): calling a generator function runs none of its body.
CreateUser(c, r) ==
  /\ session = "ready"
  /\ pc[c] = "none"
  /\ MayProvision(c, r)
  /\ pc' = [pc EXCEPT ![c] = "start"]
  /\ req' = [req EXCEPT ![c] = r]
  /\ UNCHANGED <<remote, cached, avail, password, idx, trace>>

\* _generate_password()
GeneratePassword == Passwords

\* Variant: the welcome email goes out before the groups are enrolled.
AfterNext_NotifyEarly(c) ==
  CASE pc[c] = "start" -> "insert_user"
    [] pc[c] = "yield1" -> "send"
    [] pc[c] = "yield2" -> "send"

\* Where next() takes a suspended generator: to its next remote call, or,
\* with no group to enrol, straight to the second yield.
AfterNext(c) ==
  CASE pc[c] = "start" -> "insert_user"
    [] pc[c] = "yield1" -> IF req[c].groups = << >> THEN "yield2"
                           ELSE "insert_member"
    [] pc[c] = "yield2" -> "send"

NextNumber(c) ==
  CASE pc[c] = "start" -> 1 [] pc[c] = "yield1" -> 2 [] pc[c] = "yield2" -> 3

\* next() on the generator of c.
Resume(c) ==
  /\ pc[c] \in {"start", "yield1", "yield2"}
  /\ pc' = [pc EXCEPT ![c] = AfterNext(c)]
  /\ Log(c, << Entry("next", NextNumber(c), TRUE) >> \o Yielded(AfterNext(c)))
  /\ IF pc[c] = "start"
     THEN \E pw \in GeneratePassword : password' = [password EXCEPT ![c] = pw]
     ELSE UNCHANGED password
  /\ idx' = [idx EXCEPT ![c] = IF pc[c] = "yield1" THEN 1 ELSE @]
  /\ UNCHANGED <<remote, cached, avail, req>>

\* Variant: the HttpError of users().insert is caught and ignored.
AfterUsersInsert_Swallow(c, ok) == "yield1"

\* Variant: a refusal for an address the directory already holds is taken
\* for success.
AfterUsersInsert_IgnoreConflict(c, ok) ==
  IF ok \/ HasAccount(Email(c)) THEN "yield1" ELSE "raised"

\* After users().insert(...).execute(): the first yield, or the HttpError
\* leaves the generator.
AfterUsersInsert(c, ok) == IF ok THEN "yield1" ELSE "raised"

\* admin_service.users().insert(body=...).execute(), then the first yield.
\* The directory refuses a primaryEmail it already holds; any call can fail.
UsersInsert(c) ==
  /\ pc[c] = "insert_user"
  /\ \E ok \in (IF HasAccount(Email(c)) THEN {FALSE} ELSE BOOLEAN) :
       /\ accounts' = IF ok THEN accounts \cup { UserBody(c) } ELSE accounts
       /\ pc' = [pc EXCEPT ![c] = AfterUsersInsert(c, ok)]
       /\ Log(c, << Entry("users.insert", UserBody(c), ok) >>
                   \o Yielded(AfterUsersInsert(c, ok)))
  /\ UNCHANGED <<domains, members, sent, cached, avail, req,
                 password, idx>>

\* Variant: the personal address is enrolled instead of the new account.
MemberArg_PersonalEmail(c) ==
  [groupKey |-> GroupKey(c, idx[c]), email |-> req[c].personal_email,
   role |-> "MEMBER"]

MemberArg(c) ==
  [groupKey |-> GroupKey(c, idx[c]), email |-> Email(c), role |-> "MEMBER"]

\* Variant: a failed members().insert is logged and the loop goes on.
AfterMembersInsert_Continue(c, ok) ==
  IF idx[c] = Len(req[c].groups) THEN "yield2" ELSE "insert_member"

\* Variant: no second yield, the email is sent in the same next().
AfterMembersInsert_NoSecondYield(c, ok) ==
  IF ~ok THEN "raised"
  ELSE IF idx[c] = Len(req[c].groups) THEN "send"
  ELSE "insert_member"

\* After members().insert(...).execute(): the next group, the second yield
\* after the last one, or the HttpError leaves the loop and the generator.
AfterMembersInsert(c, ok) ==
  IF ~ok THEN "raised"
  ELSE IF idx[c] = Len(req[c].groups) THEN "yield2"
  ELSE "insert_member"

\* One turn of 'for group in groups'.
MembersInsert(c) ==
  /\ pc[c] = "insert_member"
  /\ \E ok \in BOOLEAN :
       /\ members' = IF ok THEN members \cup { MemberArg(c) } ELSE members
       /\ pc' = [pc EXCEPT ![c] = AfterMembersInsert(c, ok)]
       /\ idx' = [idx EXCEPT ![c] =
                    IF AfterMembersInsert(c, ok) = "raised" THEN @ ELSE @ + 1]
       /\ Log(c, << Entry("members.insert", MemberArg(c), ok) >>
                   \o Yielded(AfterMembersInsert(c, ok)))
  /\ UNCHANGED <<domains, accounts, sent, cached, avail, req,
                 password>>

\* Variant: the HttpError of send_message is caught and ignored.
AfterSendMessage_Swallow(c, ok) == "returned"

\* Variant: a failed send leaves the generator waiting for good.
AfterSendMessage_Hang(c, ok) == IF ok THEN "returned" ELSE "send_failed"

\* Variant: a failed send is tried once more.
AfterSendMessage_RetryOnce(c, ok) ==
  IF ok THEN "returned"
  ELSE IF \A i \in DOMAIN trace[c] : trace[c][i].op # "messages.send"
       THEN "send"
       ELSE "raised"

\* After send_message: the generator returns, or the HttpError leaves it.
AfterSendMessage(c, ok) == IF ok THEN "returned" ELSE "raised"

\* send_message('me', message): gmail_service.users().messages().send(...)
\* .execute().
SendMessage(c) ==
  /\ pc[c] = "send"
  /\ \E ok \in BOOLEAN :
       /\ sent' = IF ok
                  THEN Append(sent, [userId |-> "me", body |-> WelcomeMessage(c)])
                  ELSE sent
       /\ pc' = [pc EXCEPT ![c] = AfterSendMessage(c, ok)]
       /\ Log(c, << Entry("messages.send", WelcomeMessage(c), ok) >>)
  /\ UNCHANGED <<domains, accounts, members, cached, avail,
                 req, password, idx>>

Next ==
  \/ NewGoogleAdmin
  \/ \E c \in Runs, u \in Usernames : IsUsernameAvailable(c, u)
  \/ \E c \in Runs, r \in Requests : CreateUser(c, r)
  \/ \E c \in Runs : Resume(c)
  \/ \E c \in Runs : UsersInsert(c)
  \/ \E c \in Runs : MembersInsert(c)
  \/ \E c \in Runs : SendMessage(c)

Spec == Init /\ [][Next]_vars

\* The remote calls of a resumed generator return: a generator that the
\* caller resumed runs on to its next yield, its return or its exception.
\* Nothing makes the caller call next() again.
FairSpec ==
  /\ Spec
  /\ \A c \in Runs : /\ WF_vars(UsersInsert(c))
                     /\ WF_vars(MembersInsert(c))
                     /\ WF_vars(SendMessage(c))

----------------------------------------------------------------------------
\* _generate_password on its own, one random.choice at a time.
PASSWORD_LENGTH == 18

\* Two of the characters of string.ascii_letters + string.punctuation +
\* string.digits.
PASSWORD_CHARACTERS == {"a", "9"}

\* Variant: the characters are drawn from string.printable, which has
\* whitespace.
RandomChoice_Printable == PASSWORD_CHARACTERS \cup {" "}

\* What random.choice(PASSWORD_CHARACTERS) can return.
RandomChoice == PASSWORD_CHARACTERS

\* One turn of 'for _ in range(PASSWORD_LENGTH)'.
ChooseCharacter ==
  /\ ~generated.done
  /\ Len(joined) < PASSWORD_LENGTH
  /\ \E ch \in RandomChoice : joined' = Append(joined, ch)
  /\ UNCHANGED <<remote, session, primary_domain, listed, avail, pc, req,
                 password, idx, trace, generated>>

\* The range is used up: ''.join(...) is returned.
ReturnPassword ==
  /\ ~generated.done
  /\ Len(joined) = PASSWORD_LENGTH
  /\ generated' = [done |-> TRUE, value |-> joined]
  /\ UNCHANGED <<remote, session, primary_domain, listed, avail, pc, req,
                 password, idx, trace, joined>>

NextPassword == ChooseCharacter \/ ReturnPassword

PasswordSpec == Init /\ [][NextPassword]_vars

----------------------------------------------------------------------------
\* Reading a run's trace.
PosOf(c, op) == { i \in DOMAIN trace[c] : trace[c][i].op = op }
OkPos(c, op) == { i \in PosOf(c, op) : trace[c][i].ok }
FailedPos(c, op) == { i \in PosOf(c, op) : ~trace[c][i].ok }
EventPos(c, ev) == { i \in PosOf(c, "yield") : trace[c][i] = ev }
Events(c) == SelectSeq(trace[c], LAMBDA e : e.op = "yield")
RemoteOps == {"users.insert", "members.insert", "messages.send"}
Calls(c) == SelectSeq(trace[c], LAMBDA e : e.op \in RemoteOps)
Terminal(c) == pc[c] \in {"returned", "raised"}
Suspended(c) == pc[c] \in {"start", "yield1", "yield2"}
\* The exception of the remote call 'op' ended the run.
AbortedBy(c, op) ==
  /\ pc[c] = "raised"
  /\ trace[c] # << >>
  /\ trace[c][Len(trace[c])].op = op
  /\ ~trace[c][Len(trace[c])].ok

\* C1: when users.insert succeeded, the 'User created!' event comes right
\* after it and before every members.insert call; every members.insert call
\* comes before the 'Sending them a welcome email' event, and that event
\* comes before the messages.send call.
C1_EventOrder ==
  \A c \in Runs :
    /\ \A i \in OkPos(c, "users.insert") : i + 1 \in EventPos(c, YieldCreated)
    /\ \A i \in PosOf(c, "users.insert"), j \in EventPos(c, YieldCreated) : i < j
    /\ \A j \in PosOf(c, "members.insert") :
         /\ \E i \in EventPos(c, YieldCreated) : i < j
         /\ \A k \in EventPos(c, YieldSending) : j < k
    /\ \A k \in EventPos(c, YieldSending) :
         \E i \in EventPos(c, YieldCreated) : i < k
    /\ \A m \in PosOf(c, "messages.send") :
         /\ \E k \in EventPos(c, YieldSending) : k < m
         /\ \A j \in PosOf(c, "members.insert") : j < m

C1_Witness ==
  \E c \in Runs :
    /\ pc[c] = "returned"
    /\ Cardinality(PosOf(c, "members.insert")) = 2
    /\ PosOf(c, "messages.send") # {}

\* C2: when users.insert failed, the run has made no members.insert and no
\* messages.send call, has delivered no event, and ended with the exception.
C2_FatalShortCircuit ==
  \A c \in Runs :
    FailedPos(c, "users.insert") # {} =>
      /\ pc[c] = "raised"
      /\ PosOf(c, "members.insert") = {}
      /\ PosOf(c, "messages.send") = {}
      /\ Events(c) = << >>
      /\ Len(Calls(c)) = 1

C2_Witness ==
  \E c \in Runs :
    /\ FailedPos(c, "users.insert") # {}
    /\ req[c].groups # << >>
    /\ session = "ready"

\* C3: a run that got past users.insert and ended has called members.insert
\* for every group of the request, whichever of these calls failed, and has
\* then delivered the second event and called messages.send.
C3_NoEarlyAbort ==
  \A c \in Runs :
    (Terminal(c) /\ OkPos(c, "users.insert") # {}) =>
      /\ Cardinality(PosOf(c, "members.insert")) = Len(req[c].groups)
      /\ EventPos(c, YieldSending) # {}
      /\ PosOf(c, "messages.send") # {}

\* C4: is_username_available returns True on 404, False when the user is
\* found, and lets every other failure of the get call reach its caller as
\* an exception.
C4_AvailabilityResult ==
  \A c \in Runs :
    avail[c].result # "-" =>
      /\ avail[c].outcome = "notfound" => avail[c].result = "True"
      /\ avail[c].outcome = "found" => avail[c].result = "False"
      /\ avail[c].outcome \in {"http_error", "transport"} =>
           avail[c].result = "raise"

\* C5: a failed members.insert does not end the run with its exception, and
\* the memberships whose call succeeded are in the directory.
C5_GroupFailureIsPartial ==
  \A c \in Runs :
    FailedPos(c, "members.insert") # {} =>
      /\ ~AbortedBy(c, "members.insert")
      /\ \A i \in OkPos(c, "members.insert") : trace[c][i].arg \in members

\* C6: when messages.send failed, the run ended there with the exception
\* reaching the caller, the account and every membership the run added are
\* still in the directory, and the run made no call besides its one
\* users.insert, its members.insert calls and that messages.send.
C6_SendFailureKeepsAccount ==
  \A c \in Runs :
    FailedPos(c, "messages.send") # {} =>
      /\ AbortedBy(c, "messages.send")
      /\ UserBody(c) \in accounts
      /\ \A i \in OkPos(c, "members.insert") : trace[c][i].arg \in members
      /\ \A k \in 1..Len(req[c].groups) :
           [groupKey |-> GroupKey(c, k), email |-> Email(c), role |-> "MEMBER"]
             \in members
      /\ \A i \in DOMAIN trace[c] :
           trace[c][i].op \in RemoteOps \cup {"next", "yield"}
      /\ Len(Calls(c)) = Len(req[c].groups) + 2

C6_Witness ==
  \E c \in Runs :
    /\ FailedPos(c, "messages.send") # {}
    /\ OkPos(c, "members.insert") # {}

\* C7: a run that ended and whose remote calls all succeeded has returned
\* normally after exactly: one users.insert for username@primary_domain, one
\* members.insert per entry of groups in request order, one messages.send to
\* personal_email; and it delivered exactly the two events, in order.
C7_HappyPath ==
  \A c \in Runs :
    (Terminal(c) /\ \A i \in DOMAIN Calls(c) : Calls(c)[i].ok) =>
      LET cs == Calls(c)
          n == Len(req[c].groups)
      IN  /\ pc[c] = "returned"
          /\ Len(cs) = n + 2
          /\ cs[1].op = "users.insert"
          /\ cs[1].arg.primaryEmail = FormatEmail(req[c].username, primary_domain)
          /\ \A k \in 1..n :
               /\ cs[k + 1].op = "members.insert"
               /\ cs[k + 1].arg.groupKey =
                    FormatEmail(req[c].groups[k], primary_domain)
               /\ cs[k + 1].arg.email = cs[1].arg.primaryEmail
          /\ cs[n + 2].op = "messages.send"
          /\ cs[n + 2].arg.raw.to = req[c].personal_email
          /\ Events(c) = << YieldCreated, YieldSending >>

C7_Witness ==
  \E c \in Runs :
    /\ pc[c] = "returned"
    /\ req[c].groups = << "eng", "all-staff" >>
    /\ \A i \in DOMAIN Calls(c) : Calls(c)[i].ok

\* The availability check of c reported the username of its request free.
PassedCheck(c) ==
  /\ pc[c] # "none"
  /\ avail[c].result = "True"
  /\ avail[c].username = req[c].username

\* C8: of two runs for the same username that both passed the availability
\* check, at most one has a successful users.insert, and one whose
\* users.insert failed ended there with the exception, having made no
\* members.insert and no messages.send call.
C8_RaceLoserAborts ==
  \A c1 \in Runs, c2 \in Runs :
    (c1 # c2 /\ PassedCheck(c1) /\ PassedCheck(c2)
       /\ req[c1].username = req[c2].username) =>
      /\ ~(OkPos(c1, "users.insert") # {} /\ OkPos(c2, "users.insert") # {})
      /\ FailedPos(c1, "users.insert") # {} =>
           /\ AbortedBy(c1, "users.insert")
           /\ PosOf(c1, "members.insert") = {}
           /\ PosOf(c1, "messages.send") = {}

C8_Witness ==
  \E c1 \in Runs, c2 \in Runs :
    /\ c1 # c2 /\ PassedCheck(c1) /\ PassedCheck(c2)
    /\ req[c1].username = req[c2].username
    /\ OkPos(c1, "users.insert") # {}
    /\ FailedPos(c2, "users.insert") # {}
    /\ req[c2].groups # << >>
    /\ HasAccount(Email(c2))

\* C9: the generator runs only when the caller asks: nothing is called
\* before the first next(); after a yield the next entry of the run is a
\* next(); the run is suspended exactly when the last thing it did was a
\* yield; events never outnumber the next() calls and come in emission order.
C9_PullDriven ==
  \A c \in Runs :
    /\ pc[c] \in {"none", "start"} => trace[c] = << >>
    /\ trace[c] # << >> => trace[c][1].op = "next"
    /\ \A i \in PosOf(c, "yield") :
         i < Len(trace[c]) => trace[c][i + 1].op = "next"
    /\ (pc[c] \in {"yield1", "yield2"}) <=>
         (trace[c] # << >> /\ trace[c][Len(trace[c])].op = "yield")
    /\ Len(Events(c)) <= Cardinality(PosOf(c, "next"))
    /\ Events(c) \in { << >>, << YieldCreated >>, << YieldCreated, YieldSending >> }

C9_Witness ==
  \E c \in Runs :
    /\ pc[c] = "yield1"
    /\ req[c].groups # << >>
    /\ Len(trace[c]) = 3

\* A run has started: its users.insert call is being issued.
Started(c) == pc[c] = "insert_user"

\* C10 as claimed: a started run eventually reaches a terminal state,
\* whatever its caller does.
C10_AlwaysTerminates ==
  \A c \in Runs : Started(c) ~> Terminal(c)

\* C10: a started run whose caller never leaves it suspended at a yield for
\* ever eventually returns or raises.
C10_TerminatesWhenConsumed ==
  \A c \in Runs : ([]<>(~Suspended(c))) => (Started(c) ~> Terminal(c))

C10_Witness ==
  \E c \in Runs :
    /\ pc[c] = "returned"
    /\ Cardinality(PosOf(c, "next")) = 3
    /\ req[c].groups = << >>

\* C11: a constructed session has a primary domain, and no address an
\* operation composes has a missing domain.
C11_PrimaryDomainResolved ==
  /\ session = "ready" => primary_domain \notin {"None", "unset"}
  /\ \A c \in Runs :
       /\ avail[c].result # "-" => avail[c].userKey[2] # "None"
       /\ \A i \in PosOf(c, "users.insert") :
            trace[c][i].arg.primaryEmail[2] # "None"

\* C12: the session makes one domains().list() call, in its constructor and
\* before any create_user or is_username_available call; once constructed,
\* no step makes another or writes primary_domain, and the addresses the
\* operations compose carry that primary_domain.
C12_ResolvedOnce ==
  /\ [](/\ listed <= 1
        /\ session = "ready" => listed = 1
        /\ \A c \in Runs :
             /\ (pc[c] # "none" \/ avail[c].result # "-") =>
                  (session = "ready" /\ listed = 1)
             /\ avail[c].result # "-" => avail[c].userKey[2] = primary_domain
             /\ \A i \in PosOf(c, "users.insert") :
                  trace[c][i].arg.primaryEmail[2] = primary_domain
             /\ \A i \in PosOf(c, "members.insert") :
                  trace[c][i].arg.groupKey[2] = primary_domain)
  /\ [][session = "ready" =>
          /\ session' = session
          /\ primary_domain' = primary_domain
          /\ listed' = listed]_vars

C12_Witness ==
  /\ session = "ready"
  /\ listed = 1
  /\ \E c \in Runs : pc[c] = "returned" /\ avail[c].result = "True"
  /\ \E c \in Runs : pc[c] = "none" /\ avail[c].result = "False"

\* C13: a step of is_username_available writes nothing but the caller's own
\* result: the accounts, the memberships, the sent mail, the session and
\* every run are as before, and the one get call is for
\* username@primary_domain.
C13_AvailabilityReadOnly ==
  [][\A c \in Runs :
       avail'[c] # avail[c] =>
         /\ UNCHANGED <<domains, accounts, members, sent, session,
                        primary_domain, listed, pc, req, password, idx, trace>>
         /\ \A d \in Runs \ {c} : avail'[d] = avail[d]
         /\ avail'[c].userKey =
              FormatEmail(avail'[c].username, primary_domain)]_vars

C13_Witness ==
  /\ accounts # {}
  /\ \E c \in Runs : pc[c] = "none" /\ avail[c].result = "None"
  /\ \E c \in Runs : avail[c].result = "True"

\* C14: a run calls users.insert at most once, messages.send at most once,
\* and members.insert at most once per entry of groups: its k-th
\* members.insert call is the one for the k-th entry.
C14_NothingRetried ==
  \A c \in Runs :
    /\ Cardinality(PosOf(c, "users.insert")) <= 1
    /\ Cardinality(PosOf(c, "messages.send")) <= 1
    /\ pc[c] = "none" => trace[c] = << >>
    /\ pc[c] # "none" =>
         LET ms == SelectSeq(trace[c], LAMBDA e : e.op = "members.insert")
         IN  /\ Len(ms) <= Len(req[c].groups)
             /\ \A k \in DOMAIN ms :
                  ms[k].arg.groupKey =
                    FormatEmail(req[c].groups[k], primary_domain)

C14_Witness ==
  \E c \in Runs :
    /\ FailedPos(c, "messages.send") # {}
    /\ Len(req[c].groups) = 2
    /\ \E d \in Runs : FailedPos(d, "users.insert") # {}

\* C15: what _generate_password returns has exactly PASSWORD_LENGTH
\* characters, each one of PASSWORD_CHARACTERS, whatever random.choice
\* returned; the string in the making never has another character or more
\* than PASSWORD_LENGTH of them.
C15_PasswordShape ==
  /\ Len(joined) <= PASSWORD_LENGTH
  /\ \A i \in DOMAIN joined : joined[i] \in PASSWORD_CHARACTERS
  /\ generated.done =>
       /\ Len(generated.value) = PASSWORD_LENGTH
       /\ \A i \in DOMAIN generated.value :
            generated.value[i] \in PASSWORD_CHARACTERS

C15_Witness ==
  /\ generated.done
  /\ generated.value[1] = "a"
  /\ generated.value[PASSWORD_LENGTH] = "9"

\* C16: a run's password is unset until its first next() and is never
\* written again once set; the users.insert body carries it with
\* changePasswordAtNextLogin true, and the welcome message carries the same
\* password and goes to the request's personal_email.
C16_OnePassword ==
  /\ [](\A c \in Runs :
          /\ pc[c] \in {"none", "start"} <=> password[c] = "unset"
          /\ password[c] # "unset" => password[c] \in Passwords
          /\ \A i \in PosOf(c, "users.insert") :
               /\ trace[c][i].arg.password = password[c]
               /\ trace[c][i].arg.changePasswordAtNextLogin = TRUE
               /\ \A m \in PosOf(c, "messages.send") :
                    trace[c][m].arg.raw.text.password = trace[c][i].arg.password
          /\ \A m \in PosOf(c, "messages.send") :
               /\ trace[c][m].arg.raw.to = req[c].personal_email
               /\ trace[c][m].arg.raw.text.password = password[c])
  /\ [][\A c \in Runs :
          password[c] # "unset" => password'[c] = password[c]]_vars

C16_Witness ==
  \E c \in Runs :
    /\ pc[c] = "returned"
    /\ password[c] = "pw2"
    /\ Len(sent) = 1
    /\ sent[1].body.raw.text.password = "pw2"

\* C17: every members.insert call of a run is for the address its
\* users.insert created, with role MEMBER, in a group of the request at
\* primary_domain; every membership in the directory is such a one.
C17_OwnMemberships ==
  /\ \A c \in Runs :
       \A j \in PosOf(c, "members.insert") :
         /\ trace[c][j].arg.role = "MEMBER"
         /\ trace[c][j].arg.email = FormatEmail(req[c].username, primary_domain)
         /\ \A i \in PosOf(c, "users.insert") :
              trace[c][j].arg.email = trace[c][i].arg.primaryEmail
         /\ \E k \in DOMAIN req[c].groups :
              trace[c][j].arg.groupKey =
                FormatEmail(req[c].groups[k], primary_domain)
  /\ \A m \in members :
       \E c \in Runs :
         /\ OkPos(c, "users.insert") # {}
         /\ m.role = "MEMBER"
         /\ m.email = FormatEmail(req[c].username, primary_domain)
         /\ \E k \in DOMAIN req[c].groups :
              m.groupKey = FormatEmail(req[c].groups[k], primary_domain)

C17_Witness ==
  /\ Cardinality(members) = 2
  /\ primary_domain = "corp.example"
  /\ \E c \in Runs : AbortedBy(c, "users.insert")

\* C18: when the second event has been delivered, every members.insert call
\* of the request has been made and has succeeded, and the account is a
\* member of every group of the request.
C18_SecondEventMeansEnrolled ==
  \A c \in Runs :
    EventPos(c, YieldSending) # {} =>
      /\ FailedPos(c, "members.insert") = {}
      /\ Cardinality(OkPos(c, "members.insert")) = Len(req[c].groups)
      /\ \A k \in DOMAIN req[c].groups :
           [groupKey |-> FormatEmail(req[c].groups[k], primary_domain),
            email |-> Email(c), role |-> "MEMBER"] \in members

C18_Witness ==
  \E c \in Runs :
    /\ pc[c] = "yield2"
    /\ Len(req[c].groups) = 2
    /\ req[c].groups[1] # req[c].groups[2]

\* C19: messages.send is called only right after the third next(); a run
\* suspended at the second yield has its account and memberships in the
\* directory and has sent nothing.
C19_SendNeedsThirdNext ==
  \A c \in Runs :
    /\ \A m \in PosOf(c, "messages.send") :
         m > 1 /\ trace[c][m - 1] = Entry("next", 3, TRUE)
    /\ pc[c] = "yield2" =>
         /\ Events(c) = << YieldCreated, YieldSending >>
         /\ UserBody(c) \in accounts
         /\ \A k \in DOMAIN req[c].groups :
              [groupKey |-> FormatEmail(req[c].groups[k], primary_domain),
               email |-> Email(c), role |-> "MEMBER"] \in members
         /\ PosOf(c, "messages.send") = {}
         /\ \A i \in DOMAIN sent : sent[i].body.raw.text.email # Email(c)

C19_Witness ==
  \E c \in Runs :
    /\ pc[c] = "yield2"
    /\ Cardinality(PosOf(c, "next")) = 2
    /\ req[c].groups # << >>
    /\ sent = << >>

\* The group keys a run has called members.insert for, in call order.
Attempted(c) ==
  LET ms == SelectSeq(trace[c], LAMBDA e : e.op = "members.insert")
  IN  [k \in DOMAIN ms |-> ms[k].arg.groupKey]

\* C20: the groups a run has attempted are a prefix of the request's groups,
\* and none is attempted while users.insert has not succeeded.
C20_AttemptedIsPrefix ==
  \A c \in Runs :
    /\ OkPos(c, "users.insert") = {} => Attempted(c) = << >>
    /\ pc[c] # "none" =>
         /\ Len(Attempted(c)) <= Len(req[c].groups)
         /\ Attempted(c) =
              [k \in 1..Len(Attempted(c)) |->
                 FormatEmail(req[c].groups[k], primary_domain)]

C20_Witness ==
  \E c \in Runs :
    /\ pc[c] = "insert_member"
    /\ req[c].groups = << "all-staff", "eng" >>
    /\ Len(Attempted(c)) = 1

====
